---- MODULE Spec2Model ----
(***************************************************************************)
(* Model of src/vs/base/parts/sandbox/electron-sandbox/preload.js: the     *)
(* preload script that publishes the `vscode` globals to a sandboxed       *)
(* renderer.  JavaScript strings are sequences of one-character strings,   *)
(* JavaScript values are tagged records, promises are records with a       *)
(* state.  The event loop is modelled by its tasks: the module load (three *)
(* synchronous steps), the controller's replies and messages (macrotasks), *)
(* the promise reactions (microtasks) and the calls of the sandboxed page. *)
(***************************************************************************)
EXTENDS Integers, Sequences, FiniteSets, TLC

(***************************************************************************)
(* Bounds of the model.                                                    *)
(***************************************************************************)
MaxListeners == 2
MaxAcquire == 1
MaxAwaiters == 2
MaxLen == 2

(***************************************************************************)
(* JavaScript values.                                                      *)
(***************************************************************************)
Undefined == [type |-> "undefined"]
Null == [type |-> "null"]
Str(chars) == [type |-> "string", chars |-> chars]
Num(n) == [type |-> "number", n |-> n]

\* JavaScript truthiness of the values used here (`!channel`, `!windowConfigIpcChannel`)
Truthy(v) ==
    CASE v.type = "undefined" -> FALSE
      [] v.type = "null" -> FALSE
      [] v.type = "string" -> Len(v.chars) > 0
      [] v.type = "number" -> v.n # 0
      [] OTHER -> TRUE

\* `${v}` : template-literal conversion of a value to characters
TemplateString(v) ==
    CASE v.type = "undefined" -> <<"u", "n", "d", "e", "f", "i", "n", "e", "d">>
      [] v.type = "null" -> <<"n", "u", "l", "l">>
      [] v.type = "string" -> v.chars
      [] OTHER -> <<"?">>

\* String.prototype.startsWith
StartsWith(s, p) == Len(s) >= Len(p) /\ SubSeq(s, 1, Len(p)) = p

\* String.prototype.indexOf (0-based, -1 when absent)
IndexOf(s, p) ==
    LET hits == {i \in 0..(Len(s) - Len(p)) : SubSeq(s, i + 1, i + Len(p)) = p}
    IN  IF hits = {} THEN -1 ELSE CHOOSE i \in hits : \A j \in hits : i <= j

\* String.prototype.split with a one-character separator
RECURSIVE Split(_, _)
Split(s, sep) ==
    LET i == IndexOf(s, <<sep>>)
    IN  IF i = -1 THEN <<s>>
        ELSE <<SubSeq(s, 1, i)>> \o Split(SubSeq(s, i + 2, Len(s)), sep)

Error(message) == [name |-> "Error", message |-> message]

\* `${error}` of an Error object
ErrorToString(e) == <<"Error: ", e.message>>

(***************************************************************************)
(* Literals of the source.                                                 *)
(***************************************************************************)
VscodePrefix == <<"v", "s", "c", "o", "d", "e", ":">>

WindowConfigKey ==
    <<"v", "s", "c", "o", "d", "e", "-", "w", "i", "n", "d", "o", "w", "-",
      "c", "o", "n", "f", "i", "g">>

FetchShellEnvChannel ==
    Str(VscodePrefix \o <<"f", "e", "t", "c", "h", "S", "h", "e", "l", "l", "E", "n", "v">>)

DefaultZoomLevel == 0

(***************************************************************************)
(* Utilities.                                                              *)
(***************************************************************************)
\* mutant: the prefix test is dropped, any non-empty channel passes
validateIPC_NoPrefix(channel) ==
    IF ~Truthy(channel)
    THEN [threw |-> TRUE,
          error |-> Error(<<"Unsupported event IPC channel '", TemplateString(channel), "'">>)]
    ELSE [threw |-> FALSE, value |-> TRUE]

\* mutant: the prefix is tested without its colon
validateIPC_ShortPrefix(channel) ==
    IF ~Truthy(channel) \/ ~StartsWith(channel.chars, SubSeq(VscodePrefix, 1, 6))
    THEN [threw |-> TRUE,
          error |-> Error(<<"Unsupported event IPC channel '", TemplateString(channel), "'">>)]
    ELSE [threw |-> FALSE, value |-> TRUE]

validateIPC(channel) ==
    IF ~Truthy(channel) \/ ~StartsWith(channel.chars, VscodePrefix)
    THEN [threw |-> TRUE,
          error |-> Error(<<"Unsupported event IPC channel '", TemplateString(channel), "'">>)]
    ELSE [threw |-> FALSE, value |-> TRUE]

\* the first argument that begins with --key= decides; its value is split('=')[1]
RECURSIVE parseArgvFrom(_, _, _)
parseArgvFrom(args, key, i) ==
    IF i > Len(args) THEN Undefined
    ELSE IF IndexOf(args[i], <<"-", "-">> \o key \o <<"=">>) = 0
         THEN Str(Split(args[i], "=")[2])
         ELSE parseArgvFrom(args, key, i + 1)

parseArgv(args, key) == parseArgvFrom(args, key, 1)

(***************************************************************************)
(* Objects and promises.                                                   *)
(***************************************************************************)
\* Object.assign(target, source) and { ...target, ...source } on string maps
ObjectAssign(target, source) ==
    [k \in (DOMAIN target) \cup (DOMAIN source) |->
        IF k \in DOMAIN source THEN source[k] ELSE target[k]]

\* `delete object[name]`: the object without the property
DeleteProperty(object, name) == [n \in (DOMAIN object) \ {name} |-> object[n]]

Pending == [state |-> "pending"]
Fulfilled(value) == [state |-> "fulfilled", value |-> value]
Rejected(reason) == [state |-> "rejected", reason |-> reason]
Settled(p) == p.state # "pending"

Returned(value) == [threw |-> FALSE, value |-> value]

NoCall == [op |-> "none"]
TransportCall(method, channel) == [method |-> method, channel |-> channel]

Range(seq) == {seq[i] : i \in 1..Len(seq)}

RemoveAt(seq, i) == SubSeq(seq, 1, i - 1) \o SubSeq(seq, i + 1, Len(seq))

(***************************************************************************)
(* Inputs: what the model draws the arguments and the replies from.        *)
(***************************************************************************)
ExecArg == <<"x">>
ArgOf(value) == <<"-", "-">> \o WindowConfigKey \o <<"=">> \o value
ConfigChannelChars == VscodePrefix \o <<"c">>

ArgvChoices ==
    { <<ExecArg>>,
      <<ExecArg, ArgOf(ConfigChannelChars)>>,
      <<ExecArg, ArgOf(<<"c">>)>>,
      <<ExecArg, ArgOf(<<>>)>>,
      <<ExecArg, ArgOf(ConfigChannelChars \o <<"=", "d">>)>>,
      <<ExecArg, <<"x">> \o ArgOf(ConfigChannelChars)>> }

\* channel arguments of the sandboxed page
Channels ==
    { Undefined, Str(<<"a">>), Str(VscodePrefix), Str(VscodePrefix \o <<"a">>) }

\* channels the controller sends messages on
MessageChannels == {c \in Channels : c.type = "string"}

Nonces == {"n1", "n2"}
ResponseNonces == Nonces \cup {"n3"}
PortLists == {<<"port1", "port2">>}
UserListeners == {[kind |-> "user", name |-> "f"]}

EnvKeys == {"X", "Y"}
EnvMaps(v) == UNION {[K -> {v}] : K \in SUBSET EnvKeys}
BaseEnvs == EnvMaps("base")
ShellEnvs == EnvMaps("shell")
UserEnvs == EnvMaps("user")
ZoomLevels == {Undefined, Num(0), Num(2)}
Configurations == [type : {"object"}, userEnv : UserEnvs, zoomLevel : ZoomLevels]
ControllerErrors == {Error(<<"main failed">>)}
InitialZoomLevels == {1}

\* the operations of the object literal `globals`, each bound to its function there
Operations ==
    { "ipcRenderer.send", "ipcRenderer.invoke", "ipcRenderer.on", "ipcRenderer.once",
      "ipcRenderer.removeListener", "ipcMessagePort.acquire", "webFrame.setZoomLevel",
      "webUtils.getPathForFile", "process.platform", "process.arch", "process.env",
      "process.versions", "process.type", "process.execPath", "process.cwd",
      "process.shellEnv", "process.getProcessMemoryInfo", "process.on",
      "context.configuration", "context.resolveConfiguration" }

globals == [op \in Operations |-> "globals"]

\* `vscode` is not bound in the page
NoSurface == [frozen |-> FALSE, operations |-> <<>>]

(***************************************************************************)
(* State.                                                                  *)
(***************************************************************************)
VARIABLES
    argv,                 \* process.argv
    bootEnv,              \* history: process.env when the script starts
    contextIsolated,      \* process.contextIsolated
    pc,                   \* position of the module load
    vscodeGlobal,         \* how `vscode` is bound in the page: "unset", "exposed", "global"
    configuration,        \* let configuration
    resolveConfiguration, \* the promise of the configuration task
    configInvoke,         \* the promise of ipcRenderer.invoke(windowConfigIpcChannel)
    userEnvPromise,       \* the promise of (async () => (await resolveConfiguration).userEnv)()
    shellInvoke,          \* the promise of ipcRenderer.invoke('vscode:fetchShellEnv')
    resolveShellEnv,      \* the promise of the shell environment task
    processEnv,           \* process.env
    frameZoom,            \* the zoom level of the web frame
    taskRequests,         \* history: requests issued by each task
    sideEffects,          \* history: environment merges and zoom applications of the resolver
    awaiters,             \* continuations of the page on the two promises
    registry,             \* the listeners of electron's ipcRenderer, in registration order
    nextAcq,              \* history: number of responseListener closures created
    posted,               \* window.postMessage calls, in order
    lastCall,             \* what the last step was: a call of the page with its outcome, or a
                          \* message of the controller
    transport,            \* the calls into electron's ipcRenderer made by the last step
    surface,              \* the object bound to `vscode` in the page: its operations
    held                  \* the objects the page holds from reads of process.env

loadVars == <<argv, bootEnv, contextIsolated, pc, vscodeGlobal>>
taskVars ==
    <<configuration, resolveConfiguration, configInvoke, userEnvPromise, shellInvoke,
      resolveShellEnv, processEnv, frameZoom, taskRequests, sideEffects>>
ipcVars == <<registry, nextAcq, posted>>
stepVars == <<lastCall, transport>>
pageVars == <<surface, held>>
vars == <<loadVars, taskVars, awaiters, ipcVars, stepVars, pageVars>>

\* the state when the script starts, for the argument lists and environments given
InitWith(argvs, envs) ==
    /\ argv \in argvs
    /\ contextIsolated \in BOOLEAN
    /\ pc = "resolveConfiguration"
    /\ vscodeGlobal = "unset"
    /\ configuration = Undefined
    /\ resolveConfiguration = Pending
    /\ configInvoke = [state |-> "none"]
    /\ userEnvPromise = [state |-> "none"]
    /\ shellInvoke = [state |-> "none"]
    /\ resolveShellEnv = Pending
    /\ processEnv \in envs
    /\ bootEnv = processEnv
    /\ frameZoom \in InitialZoomLevels
    /\ taskRequests = [config |-> 0, shell |-> 0]
    /\ sideEffects = [envMerge |-> 0, zoom |-> <<>>]
    /\ awaiters = <<>>
    /\ registry = <<>>
    /\ nextAcq = 0
    /\ posted = <<>>
    /\ lastCall = NoCall
    /\ transport = <<>>
    /\ surface = NoSurface
    /\ held = <<>>

Init == InitWith(ArgvChoices, BaseEnvs)

(***************************************************************************)
(* Module load: the three synchronous steps of the script.                 *)
(***************************************************************************)
BootError ==
    Error(<<"Preload: did not find expected vscode-window-config in renderer process arguments list.">>)

FetchConfigError(error) ==
    Error(<<"Preload: unable to fetch vscode-window-config: ", ErrorToString(error)>>)

windowConfigIpcChannel == parseArgv(argv, WindowConfigKey)

\* mutant: the test for a missing argument is left out
LoadResolveConfiguration_NoArgTest ==
    /\ pc = "resolveConfiguration"
    /\ pc' = "resolveShellEnv"
    /\ IF validateIPC(windowConfigIpcChannel).threw
       THEN /\ resolveConfiguration' =
                   Rejected(FetchConfigError(validateIPC(windowConfigIpcChannel).error))
            /\ transport' = <<>>
            /\ UNCHANGED <<configInvoke, taskRequests>>
       ELSE /\ configInvoke' = Pending
            /\ taskRequests' = [taskRequests EXCEPT !.config = @ + 1]
            /\ transport' = <<TransportCall("invoke", windowConfigIpcChannel)>>
            /\ UNCHANGED resolveConfiguration
    /\ UNCHANGED <<argv, bootEnv, contextIsolated, vscodeGlobal, pageVars, configuration, userEnvPromise,
                   shellInvoke, resolveShellEnv, processEnv, frameZoom, sideEffects,
                   awaiters, registry, nextAcq, posted>>
    /\ lastCall' = NoCall

\* the async function of resolveConfiguration, run up to its first await
LoadResolveConfiguration ==
    /\ pc = "resolveConfiguration"
    /\ pc' = "resolveShellEnv"
    /\ IF ~Truthy(windowConfigIpcChannel)
       THEN /\ resolveConfiguration' = Rejected(BootError)
            /\ transport' = <<>>
            /\ UNCHANGED <<configInvoke, taskRequests>>
       ELSE IF validateIPC(windowConfigIpcChannel).threw
       THEN /\ resolveConfiguration' =
                   Rejected(FetchConfigError(validateIPC(windowConfigIpcChannel).error))
            /\ transport' = <<>>
            /\ UNCHANGED <<configInvoke, taskRequests>>
       ELSE /\ configInvoke' = Pending
            /\ taskRequests' = [taskRequests EXCEPT !.config = @ + 1]
            /\ transport' = <<TransportCall("invoke", windowConfigIpcChannel)>>
            /\ UNCHANGED resolveConfiguration
    /\ UNCHANGED <<argv, bootEnv, contextIsolated, vscodeGlobal, pageVars, configuration, userEnvPromise,
                   shellInvoke, resolveShellEnv, processEnv, frameZoom, sideEffects,
                   awaiters, registry, nextAcq, posted>>
    /\ lastCall' = NoCall

\* the async function of resolveShellEnv, run up to its await of Promise.all
LoadResolveShellEnv ==
    /\ pc = "resolveShellEnv"
    /\ pc' = "install"
    /\ userEnvPromise' = Pending
    /\ shellInvoke' = Pending
    /\ taskRequests' = [taskRequests EXCEPT !.shell = @ + 1]
    /\ transport' = <<TransportCall("invoke", FetchShellEnvChannel)>>
    /\ UNCHANGED <<argv, bootEnv, contextIsolated, vscodeGlobal, pageVars, configuration, resolveConfiguration,
                   configInvoke, resolveShellEnv, processEnv, frameZoom, sideEffects,
                   awaiters, registry, nextAcq, posted>>
    /\ lastCall' = NoCall

\* mutant: the globals are published before the resolvers are started
LoadInstall_First ==
    /\ pc = "resolveConfiguration"
    /\ vscodeGlobal = "unset"
    /\ IF contextIsolated
       THEN vscodeGlobal' = "exposed"
       ELSE vscodeGlobal' = "global"
    /\ lastCall' = NoCall
    /\ transport' = <<>>
    /\ surface' = [frozen |-> vscodeGlobal' = "exposed", operations |-> globals]
    /\ UNCHANGED <<argv, bootEnv, contextIsolated, pc, taskVars, awaiters, ipcVars, held>>

\* contextBridge.exposeInMainWorld may throw, which is caught and logged; the object it
\* exposes to the page is frozen by electron, the object assigned to window.vscode is
\* the object literal itself
LoadInstall ==
    /\ pc = "install"
    /\ pc' = "ready"
    /\ IF contextIsolated
       THEN vscodeGlobal' \in {"exposed", "unset"}
       ELSE vscodeGlobal' = "global"
    /\ lastCall' = NoCall
    /\ transport' = <<>>
    /\ surface' = IF vscodeGlobal' = "unset" THEN NoSurface
                  ELSE [frozen |-> vscodeGlobal' = "exposed", operations |-> globals]
    /\ UNCHANGED <<argv, bootEnv, contextIsolated, taskVars, awaiters, ipcVars, held>>

\* the page can call into the globals once the script has run and `vscode` is bound
Reachable == pc = "ready" /\ vscodeGlobal # "unset"

(***************************************************************************)
(* electron's ipcRenderer as an event emitter.                             *)
(***************************************************************************)
\* emitter.on / emitter.once: the listener is appended
AddListener(reg, channel, listener, once) ==
    Append(reg, [channel |-> channel, listener |-> listener, once |-> once])

\* emitter.removeListener / emitter.off: the most recently added instance goes
RemoveListener(reg, channel, listener) ==
    LET hits == {i \in 1..Len(reg) : reg[i].channel = channel /\ reg[i].listener = listener}
    IN  IF hits = {} THEN reg
        ELSE RemoveAt(reg, CHOOSE i \in hits : \A j \in hits : j <= i)

\* a once wrapper removes itself before it calls the listener
RemoveOnceWrapper(reg, entry) ==
    LET hits == {i \in 1..Len(reg) : reg[i] = entry}
    IN  IF hits = {} THEN reg
        ELSE RemoveAt(reg, CHOOSE i \in hits : \A j \in hits : j <= i)

(***************************************************************************)
(* ipcMessagePort.acquire: the closure it registers.                       *)
(***************************************************************************)
\* mutant: the nonce of the response is not compared
responseListener_AnyNonce(self, st, msg) ==
    [registry |-> RemoveListener(st.registry, self.responseChannel, self),
     transport |-> Append(st.transport, TransportCall("off", self.responseChannel)),
     posted |-> Append(st.posted, [message |-> self.nonce, targetOrigin |-> "*",
                                   transfer |-> msg.ports, by |-> self.id])]

\* mutant: the listener is not taken off after a match
responseListener_NoOff(self, st, msg) ==
    IF self.nonce = msg.responseNonce
    THEN [st EXCEPT !.posted = Append(@, [message |-> self.nonce, targetOrigin |-> "*",
                                          transfer |-> msg.ports, by |-> self.id])]
    ELSE st

\* mutant: a match takes every listener of the channel off
responseListener_OffAll(self, st, msg) ==
    IF self.nonce = msg.responseNonce
    THEN [registry |-> SelectSeq(st.registry,
                                 LAMBDA entry : entry.channel # self.responseChannel),
          transport |-> Append(st.transport, TransportCall("off", self.responseChannel)),
          posted |-> Append(st.posted, [message |-> self.nonce, targetOrigin |-> "*",
                                        transfer |-> msg.ports, by |-> self.id])]
    ELSE st

\* st is the state the listener acts on: the registry, the calls into the transport
\* and the posted messages
responseListener(self, st, msg) ==
    IF self.nonce = msg.responseNonce
    THEN [registry |-> RemoveListener(st.registry, self.responseChannel, self),
          transport |-> Append(st.transport, TransportCall("off", self.responseChannel)),
          posted |-> Append(st.posted, [message |-> self.nonce, targetOrigin |-> "*",
                                        transfer |-> msg.ports, by |-> self.id])]
    ELSE st

\* emitter.emit: the listeners of the channel, as registered when the message arrives,
\* are called in order
RECURSIVE Emit(_, _, _, _)
Emit(snapshot, i, st, msg) ==
    IF i > Len(snapshot) THEN st
    ELSE IF snapshot[i].channel # msg.channel THEN Emit(snapshot, i + 1, st, msg)
    ELSE LET entry == snapshot[i]
             st1 == IF entry.once
                    THEN [st EXCEPT !.registry = RemoveOnceWrapper(@, entry)]
                    ELSE st
             st2 == IF entry.listener.kind = "responseListener"
                    THEN responseListener(entry.listener, st1, msg)
                    ELSE st1
         IN  Emit(snapshot, i + 1, st2, msg)

(***************************************************************************)
(* globals.ipcRenderer and globals.ipcMessagePort, called by the page.     *)
(***************************************************************************)
This == [type |-> "object", ref |-> "globals.ipcRenderer"]

Send(channel) ==
    /\ Reachable
    /\ LET v == validateIPC(channel)
       IN  /\ lastCall' = [op |-> "send", channel |-> channel,
                           result |-> IF v.threw THEN v ELSE Returned(Undefined)]
           /\ transport' =
                 IF v.threw THEN <<>> ELSE <<TransportCall("send", channel)>>
    /\ UNCHANGED <<loadVars, pageVars, taskVars, awaiters, registry, nextAcq, posted>>

Invoke(channel) ==
    /\ Reachable
    /\ LET v == validateIPC(channel)
       IN  /\ lastCall' = [op |-> "invoke", channel |-> channel,
                           result |-> IF v.threw THEN v ELSE Returned([type |-> "promise"])]
           /\ transport' =
                 IF v.threw THEN <<>> ELSE <<TransportCall("invoke", channel)>>
    /\ UNCHANGED <<loadVars, pageVars, taskVars, awaiters, registry, nextAcq, posted>>

\* mutant: the listener is registered before the channel is validated
On_RegisterFirst(channel, listener) ==
    /\ Reachable
    /\ LET v == validateIPC(channel)
       IN  /\ Len(registry) < MaxListeners
           /\ lastCall' = [op |-> "on", channel |-> channel,
                           result |-> IF v.threw THEN v ELSE Returned(This)]
           /\ transport' = <<TransportCall("on", channel)>>
           /\ registry' = AddListener(registry, channel, listener, FALSE)
    /\ UNCHANGED <<loadVars, pageVars, taskVars, awaiters, nextAcq, posted>>

On(channel, listener) ==
    /\ Reachable
    /\ LET v == validateIPC(channel)
       IN  /\ v.threw \/ Len(registry) < MaxListeners
           /\ lastCall' = [op |-> "on", channel |-> channel,
                           result |-> IF v.threw THEN v ELSE Returned(This)]
           /\ transport' =
                 IF v.threw THEN <<>> ELSE <<TransportCall("on", channel)>>
           /\ registry' =
                 IF v.threw THEN registry ELSE AddListener(registry, channel, listener, FALSE)
    /\ UNCHANGED <<loadVars, pageVars, taskVars, awaiters, nextAcq, posted>>

Once(channel, listener) ==
    /\ Reachable
    /\ LET v == validateIPC(channel)
       IN  /\ v.threw \/ Len(registry) < MaxListeners
           /\ lastCall' = [op |-> "once", channel |-> channel,
                           result |-> IF v.threw THEN v ELSE Returned(This)]
           /\ transport' =
                 IF v.threw THEN <<>> ELSE <<TransportCall("once", channel)>>
           /\ registry' =
                 IF v.threw THEN registry ELSE AddListener(registry, channel, listener, TRUE)
    /\ UNCHANGED <<loadVars, pageVars, taskVars, awaiters, nextAcq, posted>>

RemoveListenerCall(channel, listener) ==
    /\ Reachable
    /\ LET v == validateIPC(channel)
       IN  /\ lastCall' = [op |-> "removeListener", channel |-> channel,
                           result |-> IF v.threw THEN v ELSE Returned(This)]
           /\ transport' =
                 IF v.threw THEN <<>> ELSE <<TransportCall("removeListener", channel)>>
           /\ registry' =
                 IF v.threw THEN registry ELSE RemoveListener(registry, channel, listener)
    /\ UNCHANGED <<loadVars, pageVars, taskVars, awaiters, nextAcq, posted>>

\* acquire, for a page that acquires at most `limit` times
AcquireWithin(limit, responseChannel, nonce) ==
    /\ Reachable
    /\ LET v == validateIPC(responseChannel)
           closure == [kind |-> "responseListener", id |-> nextAcq + 1,
                       responseChannel |-> responseChannel, nonce |-> nonce]
       IN  /\ v.threw \/ (Len(registry) < MaxListeners /\ nextAcq < limit)
           /\ lastCall' = [op |-> "acquire", channel |-> responseChannel,
                           result |-> IF v.threw THEN v ELSE Returned(Undefined)]
           /\ transport' =
                 IF v.threw THEN <<>> ELSE <<TransportCall("on", responseChannel)>>
           /\ registry' =
                 IF v.threw THEN registry
                 ELSE AddListener(registry, responseChannel, closure, FALSE)
           /\ nextAcq' = IF v.threw THEN nextAcq ELSE nextAcq + 1
    /\ UNCHANGED <<loadVars, pageVars, taskVars, awaiters, posted>>

Acquire(responseChannel, nonce) == AcquireWithin(MaxAcquire, responseChannel, nonce)

\* the controller sends a message on a channel: electron emits it to the listeners
IpcMessage(channel, responseNonce, ports) ==
    /\ pc = "ready"
    /\ LET st == Emit(registry, 1,
                      [registry |-> registry, transport |-> <<>>, posted |-> posted],
                      [channel |-> channel, responseNonce |-> responseNonce, ports |-> ports])
       IN  /\ registry' = st.registry
           /\ transport' = st.transport
           /\ posted' = st.posted
    /\ lastCall' = [op |-> "message", channel |-> channel,
                     responseNonce |-> responseNonce, ports |-> ports]
    /\ UNCHANGED <<loadVars, pageVars, taskVars, awaiters, nextAcq>>

Load == LoadResolveConfiguration \/ LoadResolveShellEnv \/ LoadInstall

Messaging ==
    \/ \E c \in Channels : Send(c)
    \/ \E c \in Channels : Invoke(c)
    \/ \E c \in Channels, f \in UserListeners : On(c, f)
    \/ \E c \in Channels, f \in UserListeners : Once(c, f)
    \/ \E c \in Channels, f \in UserListeners : RemoveListenerCall(c, f)
    \/ \E c \in Channels, n \in Nonces : Acquire(c, n)
    \/ \E c \in MessageChannels, n \in ResponseNonces, p \in PortLists : IpcMessage(c, n, p)

\* the messaging specification: the load and the messaging operations, from one
\* process environment, under context isolation (the operations do not read how
\* `vscode` is bound) and the argument lists that differ in the messaging
InitIpc ==
    /\ Init
    /\ argv \in {<<ExecArg, ArgOf(ConfigChannelChars)>>, <<ExecArg, ArgOf(<<"c">>)>>}
    /\ contextIsolated
    /\ processEnv = [k \in EnvKeys |-> "base"]

NextIpc == Load \/ Messaging

SpecIpc == InitIpc /\ [][NextIpc]_vars

(***************************************************************************)
(* Properties of the messaging operations.                                 *)
(***************************************************************************)
HasVscodePrefix(channel) ==
    /\ channel.type = "string"
    /\ Len(channel.chars) >= Len(VscodePrefix)
    /\ \A i \in 1..Len(VscodePrefix) : channel.chars[i] = VscodePrefix[i]

IsResponseListener(entry) == entry.listener.kind = "responseListener"

\* the closures of acquire that are registered
Acquiring == {e \in Range(registry) : IsResponseListener(e)}

\* the positions of posted that the last step added for the closure with this id
DeliveredNow(id) == {i \in (Len(posted) + 1)..Len(posted') : posted'[i].by = id}

\* the step is a message on the closure's channel that carries its nonce
MatchingMessage(e) ==
    /\ lastCall'.op = "message"
    /\ lastCall'.channel = e.listener.responseChannel
    /\ lastCall'.responseNonce = e.listener.nonce

\* C1: every channel name handed to electron's ipcRenderer, by a call of the page, by
\* the two fetches of the load or by the closure of acquire, begins with 'vscode:'.
C1_TransportPrefixed ==
    \A i \in 1..Len(transport) : HasVscodePrefix(transport[i].channel)

\* a message has made the closure of acquire take itself off the transport
C1_Witness ==
    /\ lastCall.op = "message"
    /\ \E i \in 1..Len(transport) : transport[i].method = "off"

\* C3: a registered closure of acquire stays registered through every step that is not
\* a message on its channel carrying its nonce, and such a step delivers nothing for
\* it; a message on its channel that carries its nonce delivers for it, however many
\* other messages came before.
C3_MismatchKeepsListener ==
    [][\A e \in Acquiring :
          /\ ~MatchingMessage(e) =>
                (e \in Range(registry') /\ DeliveredNow(e.listener.id) = {})
          /\ MatchingMessage(e) => DeliveredNow(e.listener.id) # {}]_vars

\* a message with another nonce has arrived on the channel of a registered closure
C3_Witness ==
    /\ lastCall.op = "message"
    /\ posted = <<>>
    /\ \E e \in Acquiring :
          /\ e.listener.responseChannel = lastCall.channel
          /\ e.listener.nonce # lastCall.responseNonce

\* C4: a message on the channel of a registered closure that carries its nonce takes
\* the closure off the registry and posts the nonce with the ports of the message;
\* each closure posts at most once and is registered exactly until it has posted.
C4_MatchDeliversOnce ==
    /\ [][\A e \in Acquiring : MatchingMessage(e) =>
             /\ e \notin Range(registry')
             /\ Cardinality(DeliveredNow(e.listener.id)) = 1
             /\ \A i \in DeliveredNow(e.listener.id) :
                   /\ posted'[i].message = e.listener.nonce
                   /\ posted'[i].transfer = lastCall'.ports
             /\ \E i \in 1..Len(transport') :
                   transport'[i] = TransportCall("off", e.listener.responseChannel)]_vars
    /\ [](\A id \in 1..nextAcq :
             /\ Cardinality({i \in 1..Len(posted) : posted[i].by = id}) <= 1
             /\ (\E i \in 1..Len(posted) : posted[i].by = id)
                   <=> ~(\E e \in Acquiring : e.listener.id = id))

\* a closure has posted, and a further message with its nonce has arrived since
C4_Witness ==
    /\ lastCall.op = "message"
    /\ transport = <<>>
    /\ \E i \in 1..Len(posted) : posted[i].message = lastCall.responseNonce

(***************************************************************************)
(* Acquisitions that wait on one channel at the same time.                 *)
(***************************************************************************)
MaxConcurrent == 2

HandoffChannel == Str(VscodePrefix \o <<"a">>)
HandoffMessageChannels == {HandoffChannel, Str(VscodePrefix)}
HandoffPortLists == {<<"port1">>, <<"port2">>}

\* the specification of the handoff: the load, acquisitions on one channel and the
\* messages of the controller on that channel and on another, in every order
NextHandoff ==
    \/ Load
    \/ \E n \in Nonces : AcquireWithin(MaxConcurrent, HandoffChannel, n)
    \/ \E c \in HandoffMessageChannels, n \in ResponseNonces, p \in HandoffPortLists :
          IpcMessage(c, n, p)

SpecHandoff == InitIpc /\ [][NextHandoff]_vars

\* the post the closure with this id has made, if any
PostsOf(id) == {i \in 1..Len(posted) : posted[i].by = id}

\* C18: of two registered closures of acquire on one channel with different nonces, a
\* message that carries the nonce of one posts once for that one, with its nonce and
\* the ports of the message, takes it off and leaves the other registered without a
\* post; this in whichever order the two nonces arrive, and no closure posts twice.
C18_ConcurrentAcquisitionsIndependent ==
    /\ [][\A e1, e2 \in Acquiring :
             (/\ e1.listener.id # e2.listener.id
              /\ e1.listener.responseChannel = e2.listener.responseChannel
              /\ e1.listener.nonce # e2.listener.nonce
              /\ MatchingMessage(e1))
             => /\ Cardinality(DeliveredNow(e1.listener.id)) = 1
                /\ \A i \in DeliveredNow(e1.listener.id) :
                      /\ posted'[i].message = e1.listener.nonce
                      /\ posted'[i].transfer = lastCall'.ports
                /\ e1 \notin Range(registry')
                /\ DeliveredNow(e2.listener.id) = {}
                /\ e2 \in Range(registry')]_vars
    /\ [](\A id \in 1..nextAcq : Cardinality(PostsOf(id)) <= 1)
    /\ [](\A id \in 1..nextAcq :
             PostsOf(id) = {} <=> \E e \in Acquiring : e.listener.id = id)

\* two closures were registered, for n1 first and for n2 second; the nonce of the second
\* arrived first, and each has posted its own nonce with the ports of its message
C18_Witness ==
    /\ Len(posted) = 2
    /\ posted[1] = [message |-> "n2", targetOrigin |-> "*", transfer |-> <<"port1">>, by |-> 2]
    /\ posted[2] = [message |-> "n1", targetOrigin |-> "*", transfer |-> <<"port2">>, by |-> 1]
    /\ registry = <<>>

\* the operations of the globals that take a channel
ChannelOperations == {"send", "invoke", "on", "once", "removeListener", "acquire"}

\* the value is a string that is not empty and begins with 'vscode:'
PassesValidation(channel) ==
    channel.type = "string" /\ channel.chars # <<>> /\ HasVscodePrefix(channel)

\* C13: a call of send, invoke, on, once, removeListener or acquire with a channel that
\* fails validation throws the error that quotes the channel to its caller, makes no
\* call into electron's ipcRenderer and leaves the registry, the posted messages and
\* the two tasks as they were.
C13_InvalidChannelThrowsNoEffect ==
    [][(lastCall'.op \in ChannelOperations /\ ~PassesValidation(lastCall'.channel)) =>
          /\ lastCall'.result.threw
          /\ lastCall'.result.error =
                Error(<<"Unsupported event IPC channel '",
                        IF lastCall'.channel.type = "string" THEN lastCall'.channel.chars
                        ELSE <<"u", "n", "d", "e", "f", "i", "n", "e", "d">>,
                        "'">>)
          /\ transport' = <<>>
          /\ UNCHANGED <<registry, nextAcq, posted, taskVars, awaiters, loadVars>>]_vars

\* acquire has thrown for a channel without the prefix while a listener is registered
C13_Witness ==
    /\ lastCall.op = "acquire"
    /\ lastCall.channel = Str(<<"a">>)
    /\ lastCall.result.threw
    /\ registry # <<>>
    /\ transport = <<>>

(***************************************************************************)
(* validateIPC on its own, for the specification of the validator.         *)
(***************************************************************************)
Alphabet == {"v", ":", "a"}

RECURSIVE Strings(_)
Strings(n) ==
    IF n = 0 THEN {<<>>}
    ELSE LET shorter == Strings(n - 1)
         IN  shorter \cup {Append(t, ch) : t \in {u \in shorter : Len(u) = n - 1},
                                           ch \in Alphabet}

\* strings near the prefix: short strings, the prefix and its beginnings with a tail,
\* the prefix with one character missing or with a character before it
ChannelInputs ==
    {Undefined}
      \cup {Str(t) : t \in Strings(MaxLen + 1)}
      \cup {Str(SubSeq(VscodePrefix, 1, i) \o t) : i \in 1..Len(VscodePrefix),
                                                   t \in Strings(MaxLen)}
      \cup {Str(RemoveAt(VscodePrefix, i) \o t) : i \in 1..Len(VscodePrefix),
                                                  t \in Strings(MaxLen)}
      \cup {Str(<<ch>> \o VscodePrefix \o t) : ch \in Alphabet, t \in Strings(MaxLen)}

\* a call of validateIPC, as each operation of globals.ipcRenderer makes first
ValidateIPC(channel) ==
    /\ lastCall' = [op |-> "validateIPC", channel |-> channel,
                    result |-> validateIPC(channel)]
    /\ transport' = <<>>
    /\ UNCHANGED <<loadVars, pageVars, taskVars, awaiters, ipcVars>>

NextValidate == \E c \in ChannelInputs : ValidateIPC(c)

SpecValidate == InitIpc /\ [][NextValidate]_vars

\* C2: validateIPC returns true exactly for the strings that are not empty and begin
\* with 'vscode:'; for every other value, undefined and the empty string included, it
\* throws the error whose message quotes the value.
C2_ValidateIffPrefixed ==
    lastCall.op = "validateIPC" =>
        LET c == lastCall.channel
            r == lastCall.result
        IN  /\ ~r.threw <=> (c.type = "string" /\ c.chars # <<>> /\ HasVscodePrefix(c))
            /\ ~r.threw => r.value = TRUE
            /\ r.threw =>
                  r.error = Error(<<"Unsupported event IPC channel '",
                                    IF c.type = "string" THEN c.chars
                                    ELSE <<"u", "n", "d", "e", "f", "i", "n", "e", "d">>,
                                    "'">>)

\* validateIPC has accepted a name longer than the prefix
C2_Witness ==
    /\ lastCall.op = "validateIPC"
    /\ ~lastCall.result.threw
    /\ Len(lastCall.channel.chars) > Len(VscodePrefix)

(***************************************************************************)
(* The two tasks after their first await.                                  *)
(***************************************************************************)
Nullish(v) == v.type \in {"undefined", "null"}

\* mutant: process.env is replaced by the user environment
mergedProcessEnv_Replace(env, resolvedConfiguration) ==
    resolvedConfiguration.userEnv

\* Object.assign(process.env, resolvedConfiguration.userEnv)
mergedProcessEnv(env, resolvedConfiguration) ==
    ObjectAssign(env, resolvedConfiguration.userEnv)

\* mutant: an absent zoom level leaves the level at 1
appliedZoomLevel_DefaultOne(resolvedConfiguration) ==
    IF Nullish(resolvedConfiguration.zoomLevel) THEN 1
    ELSE resolvedConfiguration.zoomLevel.n

\* resolvedConfiguration.zoomLevel ?? 0
appliedZoomLevel(resolvedConfiguration) ==
    IF Nullish(resolvedConfiguration.zoomLevel) THEN DefaultZoomLevel
    ELSE resolvedConfiguration.zoomLevel.n

\* mutant: the shell environment is spread last
mergedShellEnv_ShellLast(env, shellEnv, userEnv) ==
    ObjectAssign(ObjectAssign(env, userEnv), shellEnv)

\* { ...process.env, ...shellEnv, ...userEnv }
mergedShellEnv(env, shellEnv, userEnv) ==
    ObjectAssign(ObjectAssign(env, shellEnv), userEnv)

\* mutant: the answer to the shell environment request is not held back until the
\* configuration task has ended
ShellEnvOutcome_NoWait(current, userEnvP, shellP, env, rejectedNow) ==
    IF Settled(current) THEN current
    ELSE IF rejectedNow.state = "rejected" THEN Rejected(rejectedNow.reason)
    ELSE IF shellP.state = "fulfilled"
         THEN Fulfilled(mergedShellEnv(env, shellP.value,
                                       IF userEnvP.state = "fulfilled" THEN userEnvP.value
                                       ELSE <<>>))
         ELSE current

\* Promise.all of userEnvPromise and shellInvoke, then the return of resolveShellEnv:
\* the first rejection rejects, two fulfilments fulfil with the merge
ShellEnvOutcome(current, userEnvP, shellP, env, rejectedNow) ==
    IF Settled(current) THEN current
    ELSE IF rejectedNow.state = "rejected" THEN Rejected(rejectedNow.reason)
    ELSE IF userEnvP.state = "fulfilled" /\ shellP.state = "fulfilled"
         THEN Fulfilled(mergedShellEnv(env, shellP.value, userEnvP.value))
         ELSE current

\* reactions of promises that are queued and not yet run
MicrotaskPending ==
    \/ userEnvPromise.state = "pending" /\ Settled(resolveConfiguration)
    \/ \E i \in 1..Len(awaiters) :
          /\ awaiters[i].outcome.state = "pending"
          /\ Settled(IF awaiters[i].on = "resolveConfiguration"
                     THEN resolveConfiguration ELSE resolveShellEnv)

\* a reply of the controller is a task of its own: it runs when no reaction is queued
ReplyTask == pc = "ready" /\ ~MicrotaskPending

\* mutant: the promise is fulfilled before the environment and the zoom are applied
ConfigReply_ResolveFirst(resolvedConfiguration) ==
    /\ ReplyTask
    /\ configInvoke.state = "pending"
    /\ configInvoke' = Fulfilled(resolvedConfiguration)
    /\ configuration' = resolvedConfiguration
    /\ resolveConfiguration' = Fulfilled(resolvedConfiguration)
    /\ lastCall' = NoCall
    /\ transport' = <<>>
    /\ UNCHANGED <<loadVars, pageVars, userEnvPromise, shellInvoke, resolveShellEnv, taskRequests,
                   processEnv, frameZoom, sideEffects, awaiters, ipcVars>>

\* mutant: configuration is assigned only a copy without the zoom level
ConfigReply_OtherRecord(resolvedConfiguration) ==
    /\ ReplyTask
    /\ configInvoke.state = "pending"
    /\ configInvoke' = Fulfilled(resolvedConfiguration)
    /\ configuration' = [resolvedConfiguration EXCEPT !.zoomLevel = Num(appliedZoomLevel(resolvedConfiguration))]
    /\ processEnv' = mergedProcessEnv(processEnv, resolvedConfiguration)
    /\ frameZoom' = appliedZoomLevel(resolvedConfiguration)
    /\ sideEffects' = [envMerge |-> sideEffects.envMerge + 1,
                       zoom |-> Append(sideEffects.zoom, appliedZoomLevel(resolvedConfiguration))]
    /\ resolveConfiguration' = Fulfilled(resolvedConfiguration)
    /\ lastCall' = NoCall
    /\ transport' = <<>>
    /\ UNCHANGED <<loadVars, pageVars, userEnvPromise, shellInvoke, resolveShellEnv, taskRequests,
                   awaiters, ipcVars>>

\* the controller answers the configuration request: the rest of the async function
\* of resolveConfiguration runs in one piece
ConfigReply(resolvedConfiguration) ==
    /\ ReplyTask
    /\ configInvoke.state = "pending"
    /\ configInvoke' = Fulfilled(resolvedConfiguration)
    /\ configuration' = resolvedConfiguration
    /\ processEnv' = mergedProcessEnv(processEnv, resolvedConfiguration)
    /\ frameZoom' = appliedZoomLevel(resolvedConfiguration)
    /\ sideEffects' = [envMerge |-> sideEffects.envMerge + 1,
                       zoom |-> Append(sideEffects.zoom, appliedZoomLevel(resolvedConfiguration))]
    /\ resolveConfiguration' = Fulfilled(resolvedConfiguration)
    /\ lastCall' = NoCall
    /\ transport' = <<>>
    /\ UNCHANGED <<loadVars, pageVars, userEnvPromise, shellInvoke, resolveShellEnv, taskRequests,
                   awaiters, ipcVars>>

\* the configuration request rejects: the catch wraps the error
ConfigFail(error) ==
    /\ ReplyTask
    /\ configInvoke.state = "pending"
    /\ configInvoke' = Rejected(error)
    /\ resolveConfiguration' = Rejected(FetchConfigError(error))
    /\ lastCall' = NoCall
    /\ transport' = <<>>
    /\ UNCHANGED <<loadVars, pageVars, configuration, userEnvPromise, shellInvoke, resolveShellEnv,
                   processEnv, frameZoom, taskRequests, sideEffects, awaiters, ipcVars>>

\* the reaction of (async () => (await resolveConfiguration).userEnv)()
UserEnvSettle ==
    /\ pc = "ready"
    /\ userEnvPromise.state = "pending"
    /\ Settled(resolveConfiguration)
    /\ LET settled == IF resolveConfiguration.state = "fulfilled"
                      THEN Fulfilled(resolveConfiguration.value.userEnv)
                      ELSE Rejected(resolveConfiguration.reason)
       IN  /\ userEnvPromise' = settled
           /\ resolveShellEnv' =
                 ShellEnvOutcome(resolveShellEnv, settled, shellInvoke, processEnv, settled)
    /\ lastCall' = NoCall
    /\ transport' = <<>>
    /\ UNCHANGED <<loadVars, pageVars, configuration, resolveConfiguration, configInvoke, shellInvoke,
                   processEnv, frameZoom, taskRequests, sideEffects, awaiters, ipcVars>>

\* the controller answers the shell environment request
ShellReply(shellEnv) ==
    /\ ReplyTask
    /\ shellInvoke.state = "pending"
    /\ shellInvoke' = Fulfilled(shellEnv)
    /\ resolveShellEnv' =
          ShellEnvOutcome(resolveShellEnv, userEnvPromise, Fulfilled(shellEnv), processEnv,
                          Fulfilled(shellEnv))
    /\ lastCall' = NoCall
    /\ transport' = <<>>
    /\ UNCHANGED <<loadVars, pageVars, configuration, resolveConfiguration, configInvoke,
                   userEnvPromise, processEnv, frameZoom, taskRequests, sideEffects,
                   awaiters, ipcVars>>

\* the shell environment request rejects: nothing catches the error
ShellFail(error) ==
    /\ ReplyTask
    /\ shellInvoke.state = "pending"
    /\ shellInvoke' = Rejected(error)
    /\ resolveShellEnv' =
          ShellEnvOutcome(resolveShellEnv, userEnvPromise, Rejected(error), processEnv,
                          Rejected(error))
    /\ lastCall' = NoCall
    /\ transport' = <<>>
    /\ UNCHANGED <<loadVars, pageVars, configuration, resolveConfiguration, configInvoke,
                   userEnvPromise, processEnv, frameZoom, taskRequests, sideEffects,
                   awaiters, ipcVars>>

(***************************************************************************)
(* globals.context, globals.process.shellEnv and globals.webFrame, called  *)
(* by the page.                                                            *)
(***************************************************************************)
PromiseValue == [type |-> "promise"]

\* mutant: each call runs the fetch again
CallResolveConfiguration_Refetch ==
    /\ Reachable
    /\ Len(awaiters) < MaxAwaiters
    /\ awaiters' = Append(awaiters, [on |-> "resolveConfiguration", outcome |-> Pending])
    /\ taskRequests' = [taskRequests EXCEPT !.config = @ + 1]
    /\ lastCall' = [op |-> "resolveConfiguration", result |-> Returned(PromiseValue)]
    /\ transport' = <<>>
    /\ UNCHANGED <<loadVars, pageVars, configuration, resolveConfiguration, configInvoke,
                   userEnvPromise, shellInvoke, resolveShellEnv, processEnv, frameZoom,
                   sideEffects, ipcVars>>

\* context.resolveConfiguration() with a continuation: the promise returned follows
\* resolveConfiguration
CallResolveConfiguration ==
    /\ Reachable
    /\ Len(awaiters) < MaxAwaiters
    /\ awaiters' = Append(awaiters, [on |-> "resolveConfiguration", outcome |-> Pending])
    /\ lastCall' = [op |-> "resolveConfiguration", result |-> Returned(PromiseValue)]
    /\ transport' = <<>>
    /\ UNCHANGED <<loadVars, pageVars, taskVars, ipcVars>>

\* process.shellEnv() with a continuation
CallShellEnv ==
    /\ Reachable
    /\ Len(awaiters) < MaxAwaiters
    /\ awaiters' = Append(awaiters, [on |-> "resolveShellEnv", outcome |-> Pending])
    /\ lastCall' = [op |-> "shellEnv", result |-> Returned(PromiseValue)]
    /\ transport' = <<>>
    /\ UNCHANGED <<loadVars, pageVars, taskVars, ipcVars>>

\* the continuation of an awaiter runs with the outcome of its promise
AwaiterResume(i) ==
    /\ pc = "ready"
    /\ awaiters[i].outcome.state = "pending"
    /\ LET promise == IF awaiters[i].on = "resolveConfiguration"
                      THEN resolveConfiguration ELSE resolveShellEnv
       IN  /\ Settled(promise)
           /\ awaiters' = [awaiters EXCEPT ![i].outcome = promise]
    /\ lastCall' = NoCall
    /\ transport' = <<>>
    /\ UNCHANGED <<loadVars, pageVars, taskVars, ipcVars>>

\* context.configuration()
CallConfiguration ==
    /\ Reachable
    /\ lastCall' = [op |-> "configuration", result |-> Returned(configuration)]
    /\ transport' = <<>>
    /\ UNCHANGED <<loadVars, pageVars, taskVars, awaiters, ipcVars>>

\* mutant: the level is converted to a number instead of tested
SetZoomLevel_Coerce(level) ==
    /\ Reachable
    /\ frameZoom' = IF level.type = "number" THEN level.n
                    ELSE IF level = Str(<<"2">>) THEN 2
                    ELSE IF level.type = "null" THEN 0
                    ELSE frameZoom
    /\ lastCall' = [op |-> "setZoomLevel", level |-> level, result |-> Returned(Undefined)]
    /\ transport' = <<>>
    /\ UNCHANGED <<loadVars, pageVars, configuration, resolveConfiguration, configInvoke,
                   userEnvPromise, shellInvoke, resolveShellEnv, processEnv, taskRequests,
                   sideEffects, awaiters, ipcVars>>

\* webFrame.setZoomLevel(level) of the globals
SetZoomLevel(level) ==
    /\ Reachable
    /\ frameZoom' = IF level.type = "number" THEN level.n ELSE frameZoom
    /\ lastCall' = [op |-> "setZoomLevel", level |-> level, result |-> Returned(Undefined)]
    /\ transport' = <<>>
    /\ UNCHANGED <<loadVars, pageVars, configuration, resolveConfiguration, configInvoke,
                   userEnvPromise, shellInvoke, resolveShellEnv, processEnv, taskRequests,
                   sideEffects, awaiters, ipcVars>>

ZoomArguments == {Num(3), Str(<<"2">>)}

Replies ==
    \/ \E r \in Configurations : ConfigReply(r)
    \/ \E e \in ControllerErrors : ConfigFail(e)
    \/ \E env \in ShellEnvs : ShellReply(env)
    \/ \E e \in ControllerErrors : ShellFail(e)

Microtasks ==
    \/ UserEnvSettle
    \/ \E i \in 1..Len(awaiters) : AwaiterResume(i)

PageCalls ==
    \/ CallResolveConfiguration
    \/ CallShellEnv
    \/ CallConfiguration
    \/ \E level \in ZoomArguments : SetZoomLevel(level)

\* the specification of the two tasks: the load, the replies of the controller, the
\* reactions of the promises and the calls of the page that read or await them
InitEnv ==
    /\ Init
    /\ argv \in {<<ExecArg>>, <<ExecArg, ArgOf(ConfigChannelChars)>>,
                 <<ExecArg, ArgOf(<<"c">>)>>}

NextEnv == Load \/ Replies \/ Microtasks \/ PageCalls

SpecEnv == InitEnv /\ [][NextEnv]_vars

\* the same under the scheduling of the event loop: the script runs to its end and
\* the queued reactions of promises are run; from one process environment
InitEnvFair == InitEnv /\ processEnv = [k \in EnvKeys |-> "base"]

SpecEnvFair ==
    InitEnvFair /\ [][NextEnv]_vars /\ WF_vars(Load) /\ WF_vars(Microtasks)

(***************************************************************************)
(* Properties of the two tasks.                                            *)
(***************************************************************************)
ConfigFlag == <<"-", "-">> \o WindowConfigKey \o <<"=">>

\* the startup argument gives a channel that passes validateIPC
ChannelValid ==
    LET channel == windowConfigIpcChannel
    IN  PassesValidation(channel)

\* no argument of the list has the form --vscode-window-config=<value>
ArgumentMissing ==
    \A i \in 1..Len(argv) :
        \/ Len(argv[i]) < Len(ConfigFlag)
        \/ \E j \in 1..Len(ConfigFlag) : argv[i][j] # ConfigFlag[j]

PromiseOf(awaiter) ==
    IF awaiter.on = "resolveConfiguration" THEN resolveConfiguration ELSE resolveShellEnv

\* the record the controller has answered the configuration request with, if any
ReceivedConfiguration ==
    IF configInvoke.state = "fulfilled" THEN configInvoke.value ELSE Undefined

\* C5 as stated: each task issues exactly one request in its lifetime, and the awaiters
\* of a task observe one outcome.
C5_ExactlyOneRequestEach ==
    pc = "ready" =>
        /\ taskRequests.config = 1
        /\ taskRequests.shell = 1
        /\ \A i \in 1..Len(awaiters) :
              Settled(awaiters[i].outcome) => awaiters[i].outcome = PromiseOf(awaiters[i])

\* C5, amended: the shell environment task issues exactly one request and the
\* configuration task at most one, exactly one when the startup argument gives a
\* channel that passes validateIPC and none otherwise, whatever the page calls or
\* awaits; the awaiters of a task observe one outcome, the settled state of its promise;
\* the environment merge and the zoom are applied at most once.
C5_AtMostOneRequestSharedOutcome ==
    /\ taskRequests.shell = IF pc \in {"install", "ready"} THEN 1 ELSE 0
    /\ taskRequests.config =
          IF pc # "resolveConfiguration" /\ ChannelValid THEN 1 ELSE 0
    /\ sideEffects.envMerge <= 1
    /\ Len(sideEffects.zoom) <= 1
    /\ \A i \in 1..Len(awaiters) :
          Settled(awaiters[i].outcome) => awaiters[i].outcome = PromiseOf(awaiters[i])
    /\ \A i, j \in 1..Len(awaiters) :
          /\ awaiters[i].on = awaiters[j].on
          /\ Settled(awaiters[i].outcome)
          /\ Settled(awaiters[j].outcome)
          => awaiters[i].outcome = awaiters[j].outcome

\* two continuations on the shell environment task have run with its merged result
C5_Witness ==
    /\ Len(awaiters) = 2
    /\ \A i \in 1..2 :
          /\ awaiters[i].on = "resolveShellEnv"
          /\ awaiters[i].outcome.state = "fulfilled"

\* C6 as stated: resolveConfiguration() always resolves in the end. A promise settles
\* once, so the statement has resolveConfiguration never rejected.
C6_AlwaysResolves == resolveConfiguration.state # "rejected"

\* C6, amended: configuration and each call of configuration() give undefined until the
\* controller has answered the configuration request and the record of the answer from
\* then on, the same one for good; once the answer is received resolveConfiguration is
\* fulfilled with that record, and a continuation on it is eventually run with it.
C6_ConfigurationAbsentThenRecord ==
    /\ [](configuration = ReceivedConfiguration)
    /\ [](lastCall.op = "configuration" => lastCall.result = Returned(ReceivedConfiguration))
    /\ [][configuration # Undefined => configuration' = configuration]_vars
    /\ [](configInvoke.state = "fulfilled" =>
             resolveConfiguration = Fulfilled(configInvoke.value))
    /\ \A i \in 1..MaxAwaiters :
          (/\ configInvoke.state = "fulfilled"
           /\ Len(awaiters) >= i
           /\ awaiters[i].on = "resolveConfiguration")
             ~> (Len(awaiters) >= i /\ awaiters[i].outcome = Fulfilled(configuration))

\* configuration() has returned the record, with a zoom level, that the page has also
\* received through resolveConfiguration()
C6_Witness ==
    /\ lastCall.op = "configuration"
    /\ lastCall.result.value # Undefined
    /\ lastCall.result.value.zoomLevel # Undefined
    /\ \E i \in 1..Len(awaiters) : awaiters[i].outcome = Fulfilled(lastCall.result.value)

\* C7: with no startup argument of the form, once the first step of the load has run,
\* resolveConfiguration is rejected with the boot error, no configuration request is
\* issued, process.env is as at the start, the resolver applies no zoom, configuration
\* stays undefined, and the shell environment task is rejected with the same error as
\* soon as the reactions have run: every continuation on either promise observes it.
C7_MissingArgumentFailsAll ==
    (ArgumentMissing /\ pc # "resolveConfiguration") =>
        /\ resolveConfiguration = Rejected(BootError)
        /\ taskRequests.config = 0
        /\ configInvoke.state = "none"
        /\ \A i \in 1..Len(transport) : transport[i].channel = FetchShellEnvChannel
        /\ processEnv = bootEnv
        /\ sideEffects = [envMerge |-> 0, zoom |-> <<>>]
        /\ configuration = Undefined
        /\ lastCall.op = "configuration" => lastCall.result = Returned(Undefined)
        /\ resolveShellEnv \in {Pending, Rejected(BootError)}
        /\ (pc = "ready" /\ ~MicrotaskPending) => resolveShellEnv = Rejected(BootError)
        /\ \A i \in 1..Len(awaiters) :
              Settled(awaiters[i].outcome) => awaiters[i].outcome = Rejected(BootError)

\* without the argument, continuations on both promises have run with the boot error
C7_Witness ==
    /\ ArgumentMissing
    /\ \E i, j \in 1..Len(awaiters) :
          /\ awaiters[i].on = "resolveShellEnv"
          /\ awaiters[j].on = "resolveConfiguration"
          /\ awaiters[i].outcome = Rejected(BootError)
          /\ awaiters[j].outcome = Rejected(BootError)

\* C8: a fulfilled shell environment has, for each key, the value of the user
\* environment of the configuration if the key is there, else that of the shell
\* environment of the controller if the key is there, else that of process.env as it
\* was at the start, and no other keys.
C8_ShellEnvPrecedence ==
    resolveShellEnv.state = "fulfilled" =>
        LET userEnv == configInvoke.value.userEnv
            shellEnv == shellInvoke.value
            merged == resolveShellEnv.value
        IN  /\ DOMAIN merged = (DOMAIN bootEnv) \cup (DOMAIN shellEnv) \cup (DOMAIN userEnv)
            /\ \A k \in DOMAIN merged :
                  merged[k] = IF k \in DOMAIN userEnv THEN userEnv[k]
                              ELSE IF k \in DOMAIN shellEnv THEN shellEnv[k]
                              ELSE bootEnv[k]

\* base {X: base, Y: base}, shell {X: shell}, user {X: user} give {X: user, Y: base}
C8_Witness ==
    /\ resolveShellEnv.state = "fulfilled"
    /\ bootEnv = [k \in {"X", "Y"} |-> "base"]
    /\ shellInvoke.value = [k \in {"X"} |-> "shell"]
    /\ configInvoke.value.userEnv = [k \in {"X"} |-> "user"]
    /\ resolveShellEnv.value = [k \in {"X", "Y"} |-> IF k = "X" THEN "user" ELSE "base"]

ExpectedZoom(record) == IF record.zoomLevel.type = "number" THEN record.zoomLevel.n ELSE 0

\* C9: when resolveConfiguration is fulfilled, the one zoom level the resolver has
\* applied is the zoomLevel of the configuration, or 0 if it has none, and it is the
\* level of the frame at the step that fulfils the promise.
C9_ZoomLevelApplied ==
    /\ [](resolveConfiguration.state = "fulfilled" =>
             sideEffects.zoom = <<ExpectedZoom(resolveConfiguration.value)>>)
    /\ [][(resolveConfiguration.state = "pending" /\ resolveConfiguration'.state = "fulfilled")
             => frameZoom' = ExpectedZoom(resolveConfiguration'.value)]_vars

\* a configuration without zoomLevel has been resolved and the frame is at level 0
C9_Witness ==
    /\ resolveConfiguration.state = "fulfilled"
    /\ resolveConfiguration.value.zoomLevel = Undefined
    /\ frameZoom = 0
    /\ lastCall = NoCall

\* C10: whenever a continuation on resolveConfiguration has run with the resolved
\* record, the user environment of the record is in process.env and the resolver has
\* applied the zoom level.
C10_SideEffectsBeforeAwaiters ==
    \A i \in 1..Len(awaiters) :
        (awaiters[i].on = "resolveConfiguration" /\ awaiters[i].outcome.state = "fulfilled")
        => LET record == awaiters[i].outcome.value
           IN  /\ \A k \in DOMAIN record.userEnv :
                     k \in DOMAIN processEnv /\ processEnv[k] = record.userEnv[k]
               /\ sideEffects.envMerge = 1
               /\ Len(sideEffects.zoom) = 1

\* a continuation has run with a record whose user environment overwrote a key
C10_Witness ==
    \E i \in 1..Len(awaiters) :
        /\ awaiters[i].on = "resolveConfiguration"
        /\ awaiters[i].outcome.state = "fulfilled"
        /\ "X" \in DOMAIN awaiters[i].outcome.value.userEnv
        /\ "X" \in DOMAIN bootEnv

(***************************************************************************)
(* globals.process: env, cwd.                                              *)
(***************************************************************************)
MaxReads == 2

\* a reference to process.env itself
LiveEnv == [kind |-> "process.env"]

\* mutant: the getter returns process.env itself
envAccessor_Live(env, id) == LiveEnv

\* get env() { return { ...process.env }; } : a new object with the entries of process.env
envAccessor(env, id) == [kind |-> "object", id |-> id, entries |-> env]

\* the entries of the object a reference points to
Entries(ref) == IF ref = LiveEnv THEN processEnv ELSE ref.entries

\* the page reads vscode.process.env and keeps what it gets
ReadEnv ==
    /\ Reachable
    /\ Len(held) < MaxReads
    /\ held' = Append(held, envAccessor(processEnv, Len(held) + 1))
    /\ lastCall' = [op |-> "env", result |-> Returned(envAccessor(processEnv, Len(held) + 1))]
    /\ transport' = <<>>
    /\ UNCHANGED <<loadVars, taskVars, awaiters, ipcVars, surface>>

\* what the page does to an object it holds
WriteKinds == {"set", "delete"}

Written(entries, kind, key) ==
    IF kind = "set" THEN ObjectAssign(entries, [k \in {key} |-> "page"])
    ELSE DeleteProperty(entries, key)

\* the page sets or deletes a key of an object it got from vscode.process.env
WriteHeld(i, kind, key) ==
    /\ Reachable
    /\ i \in 1..Len(held)
    /\ IF held[i] = LiveEnv
       THEN /\ processEnv' = Written(processEnv, kind, key)
            /\ UNCHANGED held
       ELSE /\ held' = [held EXCEPT ![i].entries = Written(@, kind, key)]
            /\ UNCHANGED processEnv
    /\ lastCall' = [op |-> "write", object |-> i, kind |-> kind, key |-> key]
    /\ transport' = <<>>
    /\ UNCHANGED <<loadVars, configuration, resolveConfiguration, configInvoke,
                   userEnvPromise, shellInvoke, resolveShellEnv, frameZoom, taskRequests,
                   sideEffects, awaiters, ipcVars, surface>>

Platform == "linux"
ExecPath == <<"/", "a", "/", "x">>

\* String.prototype.lastIndexOf with a one-character string (0-based, -1 when absent)
LastIndexOf(s, ch) ==
    LET hits == {i \in 0..(Len(s) - 1) : s[i + 1] = ch}
    IN  IF hits = {} THEN -1 ELSE CHOOSE i \in hits : \A j \in hits : j <= i

\* process.cwd() of the globals
Cwd ==
    /\ Reachable
    /\ lastCall' =
          [op |-> "cwd",
           result |-> Returned(
              IF "VSCODE_CWD" \in DOMAIN processEnv /\ processEnv["VSCODE_CWD"] # ""
              THEN processEnv["VSCODE_CWD"]
              ELSE SubSeq(ExecPath, 1,
                          LastIndexOf(ExecPath, IF Platform = "win32" THEN "\\" ELSE "/")))]
    /\ transport' = <<>>
    /\ UNCHANGED <<loadVars, pageVars, taskVars, awaiters, ipcVars>>

\* the operations that hand the call, or the read, to electron or to node's process
\* and return what they get
HostOperations ==
    { "webUtils.getPathForFile", "process.platform", "process.arch", "process.versions",
      "process.execPath", "process.getProcessMemoryInfo", "process.on" }

HostCall(name) ==
    /\ Reachable
    /\ lastCall' = [op |-> name, result |-> Returned([type |-> "host", of |-> name])]
    /\ transport' = <<>>
    /\ UNCHANGED <<loadVars, pageVars, taskVars, awaiters, ipcVars>>

\* get type() { return 'renderer'; }
ProcessType ==
    /\ Reachable
    /\ lastCall' = [op |-> "process.type", result |-> Returned(Str(<<"renderer">>))]
    /\ transport' = <<>>
    /\ UNCHANGED <<loadVars, pageVars, taskVars, awaiters, ipcVars>>

\* the inputs of the specification of globals.process and globals.webFrame
ProcessEnvs == {[k \in EnvKeys |-> "base"], [k \in {"VSCODE_CWD"} |-> "/w"]}
ProcessConfigurations ==
    {r \in Configurations : r.userEnv \in {<<>>, [k \in {"X"} |-> "user"]}
                            /\ r.zoomLevel \in {Undefined, Num(2)}}
ZoomInputs == {Num(0), Num(3), Num(-1), Str(<<"2">>), Null, Undefined}

\* the specification of globals.process and globals.webFrame: the load, the answer to
\* the configuration request, the reads of env, the writes of the page to what it
\* read, cwd and setZoomLevel
InitProcess ==
    /\ InitWith({<<ExecArg, ArgOf(ConfigChannelChars)>>}, ProcessEnvs)
    /\ ~contextIsolated

NextProcess ==
    \/ Load
    \/ \E r \in ProcessConfigurations : ConfigReply(r)
    \/ ReadEnv
    \/ \E i \in 1..MaxReads, kind \in WriteKinds, key \in EnvKeys : WriteHeld(i, kind, key)
    \/ Cwd
    \/ \E level \in ZoomInputs : SetZoomLevel(level)

SpecProcess == InitProcess /\ [][NextProcess]_vars

\* C15: every read of vscode.process.env gives a new object, never process.env itself,
\* with the entries process.env has at the read; when the page sets or deletes a key of
\* an object it got, process.env and the other objects it got stay as they are, so a
\* later read is not affected.
C15_EnvReadsAreCopies ==
    /\ [](\A i \in 1..Len(held) : held[i] # LiveEnv /\ held[i].id = i)
    /\ [](lastCall.op = "env" =>
             /\ lastCall.result.value = held[Len(held)]
             /\ Entries(lastCall.result.value) = processEnv)
    /\ [][lastCall'.op = "write" =>
             /\ processEnv' = processEnv
             /\ \A j \in 1..Len(held) : j # lastCall'.object => held'[j] = held[j]]_vars

\* the page has changed the first object it read, and a second read gives the entries of
\* process.env, which still has the key the page deleted from the first
C15_Witness ==
    /\ lastCall.op = "env"
    /\ Len(held) = 2
    /\ "X" \in DOMAIN processEnv
    /\ "X" \notin DOMAIN held[1].entries
    /\ held[2].entries = processEnv

\* typeof level === 'number'
IsNumber(level) == level.type = "number"

\* C16: a call of setZoomLevel returns without throwing; it sets the zoom level of the
\* frame to the argument when the argument is a number and leaves the zoom level as it
\* is for every other argument: a string of digits, null, undefined.
C16_ZoomOnlyForNumbers ==
    [][lastCall'.op = "setZoomLevel" =>
          /\ lastCall'.result = Returned(Undefined)
          /\ IsNumber(lastCall'.level) => frameZoom' = lastCall'.level.n
          /\ ~IsNumber(lastCall'.level) => frameZoom' = frameZoom]_vars

\* the frame is at the level 3 of an earlier call, and a call with null has left it there
C16_Witness ==
    /\ lastCall.op = "setZoomLevel"
    /\ lastCall.level = Null
    /\ frameZoom = 3

(***************************************************************************)
(* The page and the object bound to `vscode`.                              *)
(***************************************************************************)
\* the properties the page tries to write: one of the operations and a new name
WrittenNames == {"ipcRenderer.send", "extra"}

\* the page assigns a function of its own to a property of `vscode`: a frozen object
\* ignores the write, the object literal assigned to window.vscode takes it
AssignOperation(name) ==
    /\ Reachable
    /\ surface' =
          IF surface.frozen THEN surface
          ELSE [surface EXCEPT !.operations = ObjectAssign(@, [n \in {name} |-> "page"])]
    /\ lastCall' = [op |-> "assign", name |-> name]
    /\ transport' = <<>>
    /\ UNCHANGED <<loadVars, taskVars, awaiters, ipcVars, held>>

\* the page deletes a property of `vscode`
DeleteOperation(name) ==
    /\ Reachable
    /\ surface' =
          IF surface.frozen THEN surface
          ELSE [surface EXCEPT !.operations = DeleteProperty(@, name)]
    /\ lastCall' = [op |-> "delete", name |-> name]
    /\ transport' = <<>>
    /\ UNCHANGED <<loadVars, taskVars, awaiters, ipcVars, held>>

Writes ==
    \/ \E name \in WrittenNames : AssignOperation(name)
    \/ \E name \in WrittenNames : DeleteOperation(name)

\* the specification of the installer: the load and the writes of the page to `vscode`
NextInstall == Load \/ Writes

SpecInstall == InitEnv /\ [][NextInstall]_vars

\* C12: once `vscode` is bound, its operations are those of globals, each bound to the
\* function of globals, whatever the page assigns or deletes, by either path.
C12_SurfaceImmutable ==
    surface # NoSurface => surface.operations = globals

(***************************************************************************)
(* Properties of the load.                                                 *)
(***************************************************************************)
\* the configuration task has looked the argument up and, with a valid channel, has
\* issued its request; without one it has failed
ResolverStarted ==
    IF ChannelValid
    THEN taskRequests.config = 1 /\ configInvoke.state # "none"
    ELSE resolveConfiguration.state = "rejected" /\ taskRequests.config = 0

\* the last step was a call of the page into the globals
PageCalled == lastCall.op \notin {"none", "message", "validateIPC"}

\* C11: whenever `vscode` is bound in the page, through contextBridge or as a global,
\* the configuration task has been started: the argument is looked up and the request
\* is issued if the channel is valid; so it has been started at every call of the page.
C11_ResolverStartedBeforePublished ==
    (vscodeGlobal # "unset" \/ surface # NoSurface \/ PageCalled) => ResolverStarted

\* the page has called into globals bound directly to window.vscode while the request
\* for the configuration is still unanswered
C11_Witness ==
    /\ vscodeGlobal = "global"
    /\ lastCall.op = "configuration"
    /\ configInvoke.state = "pending"
    /\ taskRequests.config = 1

(***************************************************************************)
(* Properties of the failures of the two requests.                         *)
(***************************************************************************)
\* the error carries the text of the cause after a text of its own
Wraps(error, cause) ==
    /\ error # cause
    /\ Len(error.message) >= 2
    /\ error.message[Len(error.message)] = ErrorToString(cause)

\* C14: when the request of a task is rejected by the controller, the task is rejected
\* with an error that wraps the error of the controller, for the configuration task and
\* for the shell environment task alike, and no further request is issued.
C14_RejectionsWrapped ==
    /\ configInvoke.state = "rejected" =>
          /\ resolveConfiguration.state = "rejected"
          /\ Wraps(resolveConfiguration.reason, configInvoke.reason)
          /\ taskRequests.config = 1
    /\ (shellInvoke.state = "rejected" /\ userEnvPromise.state # "rejected") =>
          /\ resolveShellEnv.state = "rejected"
          /\ Wraps(resolveShellEnv.reason, shellInvoke.reason)
          /\ taskRequests.shell = 1

\* C20: the request for the shell environment is issued by the load, whether the
\* configuration task is waiting for its answer or has failed; the shell environment
\* task is fulfilled only when the configuration task is fulfilled and the request is
\* answered, with a merge over a process.env that already has the user environment of
\* the configuration; when either has failed and the reactions have run it is rejected.
C20_ShellEnvWaitsForConfiguration ==
    /\ pc \in {"install", "ready"} =>
          /\ taskRequests.shell = 1
          /\ shellInvoke.state # "none"
    /\ resolveShellEnv.state = "fulfilled" =>
          /\ resolveConfiguration.state = "fulfilled"
          /\ shellInvoke.state = "fulfilled"
          /\ sideEffects.envMerge = 1
          /\ LET userEnv == resolveConfiguration.value.userEnv
                 merged == ObjectAssign(bootEnv, userEnv)
             IN  /\ processEnv = merged
                 /\ resolveShellEnv.value =
                       ObjectAssign(ObjectAssign(merged, shellInvoke.value), userEnv)
    /\ (/\ pc = "ready"
        /\ ~MicrotaskPending
        /\ resolveConfiguration.state = "rejected" \/ shellInvoke.state = "rejected")
          => resolveShellEnv.state = "rejected"

\* the shell environment request was answered first: the task waits for the
\* configuration, whose request is still unanswered
C20_Witness ==
    /\ shellInvoke.state = "fulfilled"
    /\ configInvoke.state = "pending"
    /\ resolveShellEnv = Pending
    /\ "X" \in DOMAIN shellInvoke.value

(***************************************************************************)
(* Every operation together, each with one input.                          *)
(***************************************************************************)
BridgeChannel == Str(VscodePrefix \o <<"a">>)
BridgeShellEnv == [k \in {"X"} |-> "shell"]

InitBridge ==
    /\ InitWith({<<ExecArg>>, <<ExecArg, ArgOf(ConfigChannelChars)>>},
                {[k \in EnvKeys |-> "base"]})
    /\ ~contextIsolated

\* the page awaits, reads and registers once in this specification
NextBridge ==
    \/ Load
    \/ \E r \in ProcessConfigurations : ConfigReply(r)
    \/ \E e \in ControllerErrors : ConfigFail(e)
    \/ ShellReply(BridgeShellEnv)
    \/ \E e \in ControllerErrors : ShellFail(e)
    \/ Microtasks
    \/ awaiters = <<>> /\ CallResolveConfiguration
    \/ awaiters = <<>> /\ CallShellEnv
    \/ CallConfiguration
    \/ SetZoomLevel(Num(3))
    \/ held = <<>> /\ ReadEnv
    \/ Cwd
    \/ \E name \in HostOperations : HostCall(name)
    \/ ProcessType
    \/ Send(BridgeChannel)
    \/ Invoke(BridgeChannel)
    \/ \E f \in UserListeners : registry = <<>> /\ On(BridgeChannel, f)
    \/ \E f \in UserListeners : registry = <<>> /\ Once(BridgeChannel, f)
    \/ \E f \in UserListeners : RemoveListenerCall(BridgeChannel, f)
    \/ registry = <<>> /\ Acquire(BridgeChannel, "n1")
    \/ \E p \in PortLists : IpcMessage(BridgeChannel, "n1", p)

SpecBridge == InitBridge /\ [][NextBridge]_vars

\* C17 as stated: process.env is changed by the merge of the configuration task exactly
\* once; so when the configuration task has ended, the merge has been made once.
C17_MergedExactlyOnce ==
    Settled(resolveConfiguration) => sideEffects.envMerge = 1

\* C17, amended: process.env is changed by the merge of the configuration task at most
\* once, once when the answer to the configuration request is received and never
\* otherwise, and by no other operation; the merge sets every key of the user
\* environment of the configuration to its value there and leaves every other key as
\* it was.
C17_OnlyTheMergeWritesEnv ==
    /\ [](sideEffects.envMerge = IF configInvoke.state = "fulfilled" THEN 1 ELSE 0)
    /\ [][processEnv' # processEnv => sideEffects'.envMerge = sideEffects.envMerge + 1]_vars
    /\ [][sideEffects'.envMerge # sideEffects.envMerge =>
             LET userEnv == configInvoke'.value.userEnv
             IN  /\ DOMAIN processEnv' = (DOMAIN processEnv) \cup (DOMAIN userEnv)
                 /\ \A k \in DOMAIN userEnv : processEnv'[k] = userEnv[k]
                 /\ \A k \in (DOMAIN processEnv) \ (DOMAIN userEnv) :
                       processEnv'[k] = processEnv[k]]_vars
    /\ [](configInvoke.state # "fulfilled" => processEnv = bootEnv)

\* the merge has overwritten X and kept Y, and the page has read the environment since
C17_Witness ==
    /\ sideEffects.envMerge = 1
    /\ lastCall.op = "env"
    /\ bootEnv["X"] = "base"
    /\ processEnv = [k \in EnvKeys |-> IF k = "X" THEN "user" ELSE "base"]
    /\ registry # <<>>

(***************************************************************************)
(* The startup argument.                                                   *)
(***************************************************************************)
\* arguments: other arguments, the flag with a valid channel, with a second '=' in its
\* value, with an empty value, with a value that begins with '=', with a channel
\* without the prefix, with another valid channel, and the flag not at the start
ArgInputs ==
    { ExecArg,
      ArgOf(ConfigChannelChars),
      ArgOf(ConfigChannelChars \o <<"=", "d">>),
      ArgOf(<<>>),
      ArgOf(<<"=">> \o ConfigChannelChars),
      ArgOf(<<"c">>),
      ArgOf(VscodePrefix \o <<"d">>),
      <<"x">> \o ArgOf(ConfigChannelChars) }

\* the argument lists of up to MaxLen arguments
ArgvInputs == UNION {[1..n -> ArgInputs] : n \in 1..MaxLen}

\* the specification of the argument lookup: the load from every argument list
InitArgv == InitWith(ArgvInputs, {[k \in EnvKeys |-> "base"]})

SpecArgv == InitArgv /\ [][Load]_vars

\* the arguments of the form --vscode-window-config=<value>
FlagArguments == {i \in 1..Len(argv) : StartsWith(argv[i], ConfigFlag)}

\* everything after the first '=' of the first such argument
FullValue ==
    LET first == CHOOSE i \in FlagArguments : \A j \in FlagArguments : i <= j
    IN  Str(SubSeq(argv[first], Len(ConfigFlag) + 1, Len(argv[first])))

\* C19: when the first step of the load has run, the configuration task has failed with
\* the boot error exactly if no argument has the form --vscode-window-config=<value>;
\* otherwise the channel it has validated, and sent its request on if valid, is the
\* whole value of the first such argument.
C19_ChannelIsFullValue ==
    pc = "resolveShellEnv" =>
        IF FlagArguments = {}
        THEN resolveConfiguration = Rejected(BootError) /\ transport = <<>>
        ELSE /\ resolveConfiguration # Rejected(BootError)
             /\ IF PassesValidation(FullValue)
                THEN /\ transport = <<TransportCall("invoke", FullValue)>>
                     /\ resolveConfiguration = Pending
                ELSE /\ transport = <<>>
                     /\ resolveConfiguration =
                           Rejected(FetchConfigError(validateIPC(FullValue).error))

(***************************************************************************)
(* The whole program.                                                      *)
(***************************************************************************)
\* the load, the replies, the reactions, the messages and every call of the page
Next ==
    \/ NextIpc
    \/ NextEnv
    \/ NextHandoff
    \/ NextProcess
    \/ NextInstall
    \/ NextBridge

Spec == Init /\ [][Next]_vars

====
